---- MODULE Spec2Model ----
(***************************************************************************)
(* Model of JoHpt/TSolLum: the TSolLum library (TransmittanceSpectrum,     *)
(* calculate_tlum / calculate_tsol / calculate_tstroke) and the "mapping"  *)
(* sweep scripts (load_spectra, calculate, order_and_save_result), and the  *)
(* "single spectrum" script (load_spectra, calculate), whose run uses the  *)
(* variables folder, pc, loader, calc, output and error of the sweep.      *)
(*                                                                         *)
(* Numbers.  Wavelengths are integers counting ticks, TicksPerNm ticks per *)
(* nanometre, so that a non-integer wavelength (x.5 nm) is representable   *)
(* and int() truncation is a real operation.  Every other float is an      *)
(* exact rational <<n, d>> with d > 0 and gcd(n, d) = 1; <<0, 0>> is the   *)
(* non-finite float (NaN / inf) that numpy produces instead of raising.    *)
(*                                                                         *)
(* Scale.  The wavelength axis is scaled down: the Tsol window 200..3000   *)
(* nm is SolMin..SolMax, the Tlum window 380..780 nm is LumMin..LumMax and *)
(* the 2500 nm point is W2500, with the same order                         *)
(* SolMin < LumMin < LumMax < W2500 < SolMax as in the source.             *)
(***************************************************************************)
EXTENDS Integers, Sequences, FiniteSets, TLC

VARIABLES
  sample,      \* the TransmittanceSpectrum object under test
  other,       \* a second argument handed to the calculators
  reference,   \* the class attributes of D65, VLambda and ASTM_G_173
  result,      \* the last call: its name, arguments and outcome
  folder,      \* ./input_spectra: the glob listing and what the files hold
  pc,          \* where the script (mapping or single spectrum) stands
  loader,      \* the locals of load_spectra
  calc,        \* the locals of calculate
  grids,       \* the seven result DataFrames of order_and_save_result
  output,      \* the files written to ./output so far
  error        \* the exception that ended the script ("none" while it runs)

\* ---------------------------------------------------------------- bounds
TicksPerNm == 2
\* longest wavelength/transmittance array handed to set_properties
MaxLen == 3
\* largest first wavelength (nm) of an input spectrum
MaxFirstNm == 2
\* largest sampling step (ticks) of an input spectrum
MaxStep == 6
\* most files in ./input_spectra
MaxFiles == 4

\* ------------------------------------------------- program constants (scaled)
SolMin == 2
SolMax == 7
LumMin == 3
LumMax == 5
W2500 == 6

\* ------------------------------------------------------------- rationals
NaN == <<0, 0>>

Abs(a) == IF a < 0 THEN -a ELSE a

RECURSIVE Gcd(_, _)
Gcd(a, b) == IF b = 0 THEN a ELSE Gcd(b, a % b)

Rat(n, d) ==
  IF d = 0 THEN NaN
  ELSE LET g == Gcd(Abs(n), Abs(d))
           s == IF d < 0 THEN -1 ELSE 1
       IN  <<(s * n) \div g, (s * d) \div g>>

IsNaN(a) == a[2] = 0
RInt(i) == <<i, 1>>
RAdd(a, b) == IF IsNaN(a) \/ IsNaN(b) THEN NaN ELSE Rat(a[1] * b[2] + b[1] * a[2], a[2] * b[2])
RNeg(a) == IF IsNaN(a) THEN NaN ELSE <<-a[1], a[2]>>
RSub(a, b) == RAdd(a, RNeg(b))
RMul(a, b) == IF IsNaN(a) \/ IsNaN(b) THEN NaN ELSE Rat(a[1] * b[1], a[2] * b[2])
\* float division: a zero divisor gives inf or nan, never an exception
RDiv(a, b) == IF IsNaN(a) \/ IsNaN(b) THEN NaN ELSE Rat(a[1] * b[2], a[2] * b[1])

\* ------------------------------------------------------- sequence helpers
RECURSIVE SeqSum(_)
SeqSum(s) == IF s = <<>> THEN RInt(0) ELSE RAdd(Head(s), SeqSum(Tail(s)))

\* a[mask]: the elements of a whose index satisfies the boolean array mask
RECURSIVE Select(_, _)
Select(a, mask) ==
  IF a = <<>> THEN <<>>
  ELSE (IF Head(mask) THEN <<Head(a)>> ELSE <<>>) \o Select(Tail(a), Tail(mask))

SeqMin(s) == CHOOSE v \in {s[i] : i \in DOMAIN s} : \A j \in DOMAIN s : v <= s[j]
SeqMax(s) == CHOOSE v \in {s[i] : i \in DOMAIN s} : \A j \in DOMAIN s : v >= s[j]

\* int(w) of a positive wavelength w, in nm
IntNm(tick) == tick \div TicksPerNm
NmTick(nm) == nm * TicksPerNm

\* a faulty variant: the grid stops one nanometre before end
LinspaceOpen(start, end) == [i \in 1..(end - start) |-> NmTick(start + i - 1)]

\* np.linspace(start, end, steps) for steps = end - start + 1 >= 0: the
\* integers start..end (in ticks); empty when steps = 0
Linspace(start, end) == [i \in 1..(end - start + 1) |-> NmTick(start + i - 1)]

\* ------------------------------------------------------------ exceptions
\* The outcome of a call: the exception it raised ("none" when it returned)
Returned == "none"

\* --------------------------------------------- scipy.interpolate.interp1d
\* np.argsort(x, kind="mergesort") as interp1d applies it (assume_sorted is
\* False): a stable ordering of the indices of x
RECURSIVE InsertIdx(_, _, _)
InsertIdx(sorted, i, x) ==
  IF sorted = <<>> THEN <<i>>
  ELSE IF x[Head(sorted)] <= x[i]
       THEN <<Head(sorted)>> \o InsertIdx(Tail(sorted), i, x)
       ELSE <<i>> \o sorted

RECURSIVE ArgsortUpTo(_, _)
ArgsortUpTo(x, n) == IF n = 0 THEN <<>> ELSE InsertIdx(ArgsortUpTo(x, n - 1), n, x)

Argsort(x) == ArgsortUpTo(x, Len(x))

Take(y, ind) == [k \in DOMAIN ind |-> y[ind[k]]]

\* The scipy builds differ on degenerate input only.  "legacy": interp1d
\* wants 2 entries and evaluates slope * (v - x_lo) + y_lo between the
\* neighbours found by searchsorted.  "current": interp1d wants 1 entry and
\* hands float data to numpy.interp.
Builds == {"legacy", "current"}

\* interp1d._call_linear at one point v inside [x[1], x[Len(x)]], Len(x) >= 2
CallLinear(x, y, v) ==
  LET n   == Len(x)
      pos == Cardinality({i \in DOMAIN x : x[i] < v})
      idx == IF pos < 1 THEN 1 ELSE IF pos > n - 1 THEN n - 1 ELSE pos
      lo  == idx
      hi  == idx + 1
      slope == RDiv(RSub(y[hi], y[lo]), RInt(x[hi] - x[lo]))
  IN  RAdd(RMul(slope, RInt(v - x[lo])), y[lo])

\* numpy.interp at one point v inside [x[1], x[Len(x)]]
CallLinearNp(x, y, v) ==
  LET n == Len(x)
      j == CHOOSE k \in DOMAIN x : x[k] <= v /\ \A m \in DOMAIN x : x[m] <= v => m <= k
  IN  IF n = 1 \/ j = n \/ x[j] = v THEN y[j]
      ELSE RAdd(RMul(RDiv(RSub(y[j + 1], y[j]), RInt(x[j + 1] - x[j])), RInt(v - x[j])), y[j])

\* interp1d(x, y)(grid): the exception raised, or the interpolated values
Interp1dCall(build, xs, ys, grid) ==
  LET ind == Argsort(xs)
      x   == Take(xs, ind)
      y   == Take(ys, ind)
  IN  IF \E i \in DOMAIN grid : grid[i] < x[1] \/ grid[i] > x[Len(x)]
      THEN [raised |-> "ValueError", values |-> <<>>]
      ELSE [raised |-> Returned,
            values |-> [i \in DOMAIN grid |->
                          IF build = "legacy" THEN CallLinear(x, y, grid[i])
                          ELSE CallLinearNp(x, y, grid[i])]]

Interp1dMinEntries(build) == IF build = "legacy" THEN 2 ELSE 1

\* ------------------------------------------------- TransmittanceSpectrum
\* TransmittanceSpectrum.__init__
NewSpectrum == [type |-> "TransmittanceSpectrum", wavelength |-> <<>>, transmittance |-> <<>>]

IsNdarray(arg) == arg.type = "ndarray"

\* TransmittanceSpectrum.set_properties(wavelength, transmittance)
set_properties(self, wavelength, transmittance) ==
  IF ~IsNdarray(wavelength) THEN [raised |-> "TypeError", self |-> self]
  ELSE IF ~IsNdarray(transmittance) THEN [raised |-> "TypeError", self |-> self]
  ELSE IF Len(wavelength.data) # Len(transmittance.data)
       THEN [raised |-> "ValueError", self |-> self]
  ELSE [raised |-> Returned,
        self |-> [self EXCEPT !.wavelength = wavelength.data,
                              !.transmittance = transmittance.data]]

\* TransmittanceSpectrum.interpolate() on one scipy build.  The wavelength
\* field is assigned (line 157) before the interpolant is evaluated (line
\* 158), so an evaluation that raises leaves the new grid behind.
interpolate(build, self) ==
  LET w == self.wavelength
      t == self.transmittance
  IN  IF w = <<>> THEN [raised |-> "IndexError", self |-> self]
      ELSE
        LET start == IntNm(w[1])
            end   == IntNm(w[Len(w)])
            steps == end - start + 1
        IN  IF Len(w) # Len(t) \/ Len(w) < Interp1dMinEntries(build)
            THEN [raised |-> "ValueError", self |-> self]
            ELSE IF steps < 0 THEN [raised |-> "ValueError", self |-> self]
            ELSE
              LET grid == Linspace(start, end)
                  got  == Interp1dCall(build, w, t, grid)
              IN  IF got.raised # Returned
                  THEN [raised |-> got.raised, self |-> [self EXCEPT !.wavelength = grid]]
                  ELSE [raised |-> Returned,
                        self |-> [self EXCEPT !.wavelength = grid,
                                              !.transmittance = got.values]]

\* ---------------------------------------------------- reference spectra
NmRange(lo, hi) == [i \in 1..(hi - lo + 1) |-> NmTick(lo + i - 1)]

\* class D65: the illuminant on its native 1 nm grid (stand-in weights),
\* read from the bundled file when the module is imported
LoadD65 == [wavelength |-> NmRange(LumMin, LumMax),
        csi |-> [i \in 1..(LumMax - LumMin + 1) |-> RInt(i + 1)]]

\* class VLambda: the eye sensitivity on the same grid (stand-in weights)
LoadVLambda == [wavelength |-> NmRange(LumMin, LumMax),
            spectral_sensistivity |->
              [i \in 1..(LumMax - LumMin + 1) |->
                 RInt(1 + (IF i - 1 < LumMax - LumMin + 1 - i THEN i - 1
                           ELSE LumMax - LumMin + 1 - i))]]

\* class ASTM_G_173: the solar irradiance on its 1 nm grid (stand-in weights)
LoadASTM_G_173 == [wavelength |-> NmRange(SolMin, SolMax),
               spectral_irradiance |->
                 [i \in 1..(SolMax - SolMin + 1) |-> RInt(1 + (i % 3))]]

\* the class attributes as the calculators read them
D65 == reference.D65
VLambda == reference.VLambda
ASTM_G_173 == reference.ASTM_G_173

\* ------------------------------------------------------ numpy arithmetic
\* a * b with broadcasting: shapes (n,) and (m,) combine when n = m or one
\* of them is 1; anything else raises ValueError
NpMul(a, b) ==
  LET n == Len(a)
      m == Len(b)
  IN  IF n = m THEN [raised |-> Returned, values |-> [i \in 1..n |-> RMul(a[i], b[i])]]
      ELSE IF n = 1 THEN [raised |-> Returned, values |-> [i \in 1..m |-> RMul(a[1], b[i])]]
      ELSE IF m = 1 THEN [raised |-> Returned, values |-> [i \in 1..n |-> RMul(a[i], b[1])]]
      ELSE [raised |-> "ValueError", values |-> <<>>]

\* a faulty variant: an empty operand counts as one zero
NpSubZeroFill(a, b) ==
  IF a = <<>> \/ b = <<>> THEN [raised |-> Returned, values |-> <<RInt(0)>>]
  ELSE IF Len(a) = Len(b)
  THEN [raised |-> Returned, values |-> [i \in DOMAIN a |-> RSub(a[i], b[i])]]
  ELSE [raised |-> "ValueError", values |-> <<>>]

\* a - b with the same broadcasting
NpSub(a, b) ==
  LET n == Len(a)
      m == Len(b)
  IN  IF n = m THEN [raised |-> Returned, values |-> [i \in 1..n |-> RSub(a[i], b[i])]]
      ELSE IF n = 1 THEN [raised |-> Returned, values |-> [i \in 1..m |-> RSub(a[1], b[i])]]
      ELSE IF m = 1 THEN [raised |-> Returned, values |-> [i \in 1..n |-> RSub(a[i], b[1])]]
      ELSE [raised |-> "ValueError", values |-> <<>>]

\* -------------------------------------------- scipy.integrate.simpson
\* one parabola of _basic_simpson over the points i, i+1, i+2; a zero gap
\* makes scipy put 0 where it would divide by zero
SimpsonTerm(y, x, i) ==
  LET h0 == Rat(x[i + 1] - x[i], TicksPerNm)
      h1 == Rat(x[i + 2] - x[i + 1], TicksPerNm)
      hsum  == RAdd(h0, h1)
      hprod == RMul(h0, h1)
      h0divh1 == IF h1[1] # 0 THEN RDiv(h0, h1) ELSE RInt(0)
      inv  == IF h0divh1[1] # 0 THEN RDiv(RInt(1), h0divh1) ELSE RInt(0)
      quot == IF hprod[1] # 0 THEN RDiv(hsum, hprod) ELSE RInt(0)
  IN  RMul(RDiv(hsum, RInt(6)),
           RAdd(RAdd(RMul(y[i], RSub(RInt(2), inv)),
                     RMul(y[i + 1], RMul(hsum, quot))),
                RMul(y[i + 2], RSub(RInt(2), h0divh1))))

\* _basic_simpson(y, start, stop, x): the parabolas starting at the 0-based
\* indices start, start + 2, ... below stop; nothing when fewer than 3 points
RECURSIVE BasicSimpson(_, _, _, _)
BasicSimpson(y, start, stop, x) ==
  IF Len(y) < 3 \/ start >= stop THEN RInt(0)
  ELSE RAdd(SimpsonTerm(y, x, start + 1), BasicSimpson(y, start + 2, stop, x))

\* a faulty variant: the lengths of y and x are not compared and the rule
\* runs over as many points as both hold
simpson_unchecked(y, x) ==
  IF y = <<>> \/ x = <<>> THEN [raised |-> "IndexError", value |-> <<>>]
  ELSE [raised |-> Returned,
        value |-> BasicSimpson(SubSeq(y, 1, IF Len(y) < Len(x) THEN Len(y) ELSE Len(x)),
                               0, (IF Len(y) < Len(x) THEN Len(y) ELSE Len(x)) - 2,
                               SubSeq(x, 1, IF Len(y) < Len(x) THEN Len(y) ELSE Len(x)))]

\* simpson(y, x=x, even="avg")
simpson(y, x) ==
  LET N == Len(y)
  IN  IF Len(x) # N THEN [raised |-> "ValueError", value |-> <<>>]
      ELSE IF N = 0 THEN [raised |-> "IndexError", value |-> <<>>]
      ELSE IF N % 2 = 0
      THEN LET last_dx  == Rat(x[N] - x[N - 1], TicksPerNm)
               first_dx == Rat(x[2] - x[1], TicksPerNm)
               val == RAdd(RMul(RMul(Rat(1, 2), last_dx), RAdd(y[N], y[N - 1])),
                           RMul(RMul(Rat(1, 2), first_dx), RAdd(y[2], y[1])))
               res == RAdd(BasicSimpson(y, 0, N - 3, x), BasicSimpson(y, 1, N - 2, x))
           IN  [raised |-> Returned,
                value |-> RAdd(RDiv(res, RInt(2)), RDiv(val, RInt(2)))]
      ELSE [raised |-> Returned, value |-> BasicSimpson(y, 0, N - 2, x)]

\* ------------------------------------------- transmittance_calculator.py
IsSpectrum(arg) == arg.type = "TransmittanceSpectrum"

\* The outcome of a calculator call: the exception raised, the value
\* returned, the stages it went through, and the argument as the call left it
Outcome(raised, value, trace, self) ==
  [raised |-> raised, value |-> value, trace |-> trace, self |-> self]

\* the stages a calculator goes through, in order
Stages(n) == SubSeq(<<"isinstance", "mask", "multiply", "simpson", "divide">>, 1, n)

\* transmittance * w1 * w2 ..., each product broadcast by numpy
RECURSIVE NpProduct(_, _)
NpProduct(product, num) ==
  IF num = <<>> \/ product.raised # Returned THEN product
  ELSE NpProduct(NpMul(product.values, Head(num)), Tail(num))

\* lines 62-71 (and 102-110): the two integrals and their quotient
Quotient(spectrum, numerator, denominator) ==
  IF numerator.raised # Returned THEN Outcome(numerator.raised, <<>>, Stages(4), spectrum)
  ELSE IF denominator.raised # Returned
  THEN Outcome(denominator.raised, <<>>, Stages(4), spectrum)
  ELSE Outcome(Returned, RDiv(numerator.value, denominator.value), Stages(5), spectrum)

\* lines 62-71 (and 102-110) on the masked arrays: num is the chain of
\* weight arrays multiplied onto the transmittance, in order; den is the
\* integrand of the denominator
Integrated(spectrum, wavelength, product, den) ==
  IF product.raised # Returned THEN Outcome(product.raised, <<>>, Stages(3), spectrum)
  ELSE Quotient(spectrum, simpson(product.values, wavelength), simpson(den, wavelength))

\* the boolean mask of lines 56-57 (and 96-97)
InRange(w, refw) == [i \in DOMAIN w |-> w[i] >= SeqMin(refw) /\ w[i] <= SeqMax(refw)]

\* a faulty variant: a spectrum with no sample in the reference range is
\* given the ratio 0 instead of being handed to numpy
WeightedRatioEmptyZero(spectrum, refw, num, den) ==
  IF Len(spectrum.transmittance) # Len(spectrum.wavelength)
  THEN Outcome("IndexError", <<>>, Stages(2), spectrum)
  ELSE IF \A i \in DOMAIN spectrum.wavelength : ~InRange(spectrum.wavelength, refw)[i]
  THEN Outcome(Returned, RInt(0), Stages(5), spectrum)
  ELSE Integrated(spectrum,
                  Select(spectrum.wavelength, InRange(spectrum.wavelength, refw)),
                  NpProduct([raised |-> Returned,
                             values |-> Select(spectrum.transmittance,
                                               InRange(spectrum.wavelength, refw))], num),
                  den)

\* mask / multiply / simpson / divide of calculate_tlum and calculate_tsol
WeightedRatio(spectrum, refw, num, den) ==
  IF Len(spectrum.transmittance) # Len(spectrum.wavelength)
  THEN Outcome("IndexError", <<>>, Stages(2), spectrum)
  ELSE Integrated(spectrum,
                  Select(spectrum.wavelength, InRange(spectrum.wavelength, refw)),
                  NpProduct([raised |-> Returned,
                             values |-> Select(spectrum.transmittance,
                                               InRange(spectrum.wavelength, refw))], num),
                  den)

\* a faulty variant: the denominator integrates D65 alone
calculate_tlum_d65_only(spectrum) ==
  IF ~IsSpectrum(spectrum)
  THEN Outcome("TSolLumError", <<>>, Stages(1), spectrum)
  ELSE WeightedRatio(spectrum, D65.wavelength,
                     <<D65.csi, VLambda.spectral_sensistivity>>,
                     D65.csi)

\* calculate_tlum(spectrum)
calculate_tlum(spectrum) ==
  IF ~IsSpectrum(spectrum)
  THEN Outcome("TSolLumError", <<>>, Stages(1), spectrum)
  ELSE WeightedRatio(spectrum, D65.wavelength,
                     <<D65.csi, VLambda.spectral_sensistivity>>,
                     NpMul(D65.csi, VLambda.spectral_sensistivity).values)

\* a faulty variant: the masked arrays are assigned back to the argument
calculate_tsol_in_place(spectrum) ==
  IF ~IsSpectrum(spectrum)
  THEN Outcome("TSolLumError", <<>>, Stages(1), spectrum)
  ELSE [WeightedRatio(spectrum, ASTM_G_173.wavelength,
                      <<ASTM_G_173.spectral_irradiance>>,
                      ASTM_G_173.spectral_irradiance)
          EXCEPT !.self = [spectrum EXCEPT
                             !.wavelength =
                               SelectSeq(spectrum.wavelength,
                                         LAMBDA v : /\ v >= SeqMin(ASTM_G_173.wavelength)
                                                    /\ v <= SeqMax(ASTM_G_173.wavelength))]]

\* calculate_tsol(spectrum)
calculate_tsol(spectrum) ==
  IF ~IsSpectrum(spectrum)
  THEN Outcome("TSolLumError", <<>>, Stages(1), spectrum)
  ELSE WeightedRatio(spectrum, ASTM_G_173.wavelength,
                     <<ASTM_G_173.spectral_irradiance>>,
                     ASTM_G_173.spectral_irradiance)

\* the stages of calculate_tstroke, in order
StrokeStages(n) == SubSeq(<<"isinstance", "isinstance", "mask", "subtract", "index">>, 1, n)

\* line 156: (semiconductive - metallic)[0]
FirstOf(args, diff) ==
  IF diff.raised # Returned THEN Outcome(diff.raised, <<>>, StrokeStages(4), args)
  ELSE IF diff.values = <<>> THEN Outcome("IndexError", <<>>, StrokeStages(5), args)
  ELSE Outcome(Returned, diff.values[1], StrokeStages(5), args)

\* the mask of lines 149 and 152
At2500(w) == [i \in DOMAIN w |-> w[i] = NmTick(W2500)]

\* lines 149-156: the transmittances at 2500 nm and their difference
Stroke(semiconductive_spectrum, metallic_spectrum) ==
  IF \/ Len(semiconductive_spectrum.transmittance) # Len(semiconductive_spectrum.wavelength)
     \/ Len(metallic_spectrum.transmittance) # Len(metallic_spectrum.wavelength)
  THEN Outcome("IndexError", <<>>, StrokeStages(3), <<semiconductive_spectrum, metallic_spectrum>>)
  ELSE FirstOf(<<semiconductive_spectrum, metallic_spectrum>>,
               NpSub(Select(semiconductive_spectrum.transmittance,
                            At2500(semiconductive_spectrum.wavelength)),
                     Select(metallic_spectrum.transmittance,
                            At2500(metallic_spectrum.wavelength))))

\* a faulty variant: the second isinstance check names the first argument
\* again, so a metallic argument of another type gets as far as its
\* missing attribute
calculate_tstroke_one_check(semiconductive_spectrum, metallic_spectrum) ==
  IF ~IsSpectrum(semiconductive_spectrum)
  THEN Outcome("TSolLumError", <<>>, StrokeStages(1),
               <<semiconductive_spectrum, metallic_spectrum>>)
  ELSE IF ~IsSpectrum(metallic_spectrum)
  THEN Outcome("AttributeError", <<>>, StrokeStages(3),
               <<semiconductive_spectrum, metallic_spectrum>>)
  ELSE Stroke(semiconductive_spectrum, metallic_spectrum)

\* calculate_tstroke(semiconductive_spectrum, metallic_spectrum); self is
\* the pair of arguments as the call left them
calculate_tstroke(semiconductive_spectrum, metallic_spectrum) ==
  IF ~IsSpectrum(semiconductive_spectrum)
  THEN Outcome("TSolLumError", <<>>, StrokeStages(1),
               <<semiconductive_spectrum, metallic_spectrum>>)
  ELSE IF ~IsSpectrum(metallic_spectrum)
  THEN Outcome("TSolLumError", <<>>, StrokeStages(2),
               <<semiconductive_spectrum, metallic_spectrum>>)
  ELSE Stroke(semiconductive_spectrum, metallic_spectrum)

\* ================================================================ strings
\* A Python str is a sequence of one-character strings.  Alphabet lists the
\* characters that occur, in code-point order; Code is a character's rank.
Alphabet == <<".", "/", "0", "1", "5", "\\", "_", "a", "b", "c", "e", "i",
              "m", "n", "s", "t", "x">>

Code(ch) == CHOOSE k \in DOMAIN Alphabet : Alphabet[k] = ch

\* a < b for str operands
RECURSIVE StrLess(_, _)
StrLess(a, b) ==
  IF b = <<>> THEN FALSE
  ELSE IF a = <<>> THEN TRUE
  ELSE IF Head(a) = Head(b) THEN StrLess(Tail(a), Tail(b))
  ELSE Code(Head(a)) < Code(Head(b))

StartsWith(s, sub) == Len(sub) <= Len(s) /\ SubSeq(s, 1, Len(sub)) = sub

\* sub in s
Contains(s, sub) == \E i \in 1..(Len(s) - Len(sub) + 1) : SubSeq(s, i, i + Len(sub) - 1) = sub

\* s.replace(sub, ""), sub non-empty: every occurrence, scanning left to right
RECURSIVE Remove(_, _)
Remove(s, sub) ==
  IF s = <<>> THEN <<>>
  ELSE IF StartsWith(s, sub) THEN Remove(SubSeq(s, Len(sub) + 1, Len(s)), sub)
  ELSE <<Head(s)>> \o Remove(Tail(s), sub)

\* s.split(sep), sep non-empty
RECURSIVE SplitFrom(_, _, _)
SplitFrom(s, sep, cur) ==
  IF s = <<>> THEN <<cur>>
  ELSE IF StartsWith(s, sep)
       THEN <<cur>> \o SplitFrom(SubSeq(s, Len(sep) + 1, Len(s)), sep, <<>>)
       ELSE SplitFrom(Tail(s), sep, Append(cur, Head(s)))

Split(s, sep) == SplitFrom(s, sep, <<>>)

Digits == <<"0", "1", "5">>
DigitValue(ch) == IF ch = "0" THEN 0 ELSE IF ch = "1" THEN 1 ELSE 5
IsDigit(ch) == \E k \in DOMAIN Digits : Digits[k] = ch

\* int(s): the string parses when it is a non-empty run of digits
CanParseInt(s) == s # <<>> /\ \A k \in DOMAIN s : IsDigit(s[k])

RECURSIVE ParseIntFrom(_, _)
ParseIntFrom(s, acc) ==
  IF s = <<>> THEN acc ELSE ParseIntFrom(Tail(s), 10 * acc + DigitValue(Head(s)))

ParseInt(s) == ParseIntFrom(s, 0)

\* sorted(xs) for a list of str: a stable insertion sort
RECURSIVE InsertStr(_, _)
InsertStr(sorted, s) ==
  IF sorted = <<>> THEN <<s>>
  ELSE IF StrLess(s, Head(sorted)) THEN <<s>> \o sorted
  ELSE <<Head(sorted)>> \o InsertStr(Tail(sorted), s)

\* a faulty variant: the list is left in glob order
Unsorted(xs) == xs

RECURSIVE SortedStr(_)
SortedStr(xs) == IF xs = <<>> THEN <<>> ELSE InsertStr(SortedStr(SubSeq(xs, 1, Len(xs) - 1)), xs[Len(xs)])

\* [x for x in xs if sub in x]
RECURSIVE FilterContains(_, _)
FilterContains(xs, sub) ==
  IF xs = <<>> THEN <<>>
  ELSE (IF Contains(Head(xs), sub) THEN <<Head(xs)>> ELSE <<>>)
       \o FilterContains(Tail(xs), sub)

\* ============================================================ DataFrames
\* A DataFrame: its column labels in order (the first is the wavelength
\* column), the wavelength column in ticks, and one value column per further
\* label.  The index is a RangeIndex: row i carries the label i - 1.
WL == "Wavelength (nm)"

Frame(columns, wave, data) == [columns |-> columns, wave |-> wave, data |-> data]

\* df[(df[WL] >= lo) & (df[WL] <= hi)].reset_index(drop=True), lo and hi in nm
Window(df, lo, hi) ==
  LET mask == [i \in DOMAIN df.wave |-> df.wave[i] >= NmTick(lo) /\ df.wave[i] <= NmTick(hi)]
  IN  Frame(df.columns, Select(df.wave, mask),
            [c \in DOMAIN df.data |-> Select(df.data[c], mask)])

\* the position of a column label among the value columns
ColumnOf(df, label) == CHOOSE c \in DOMAIN df.data : df.columns[c + 1] = label

\* a * b for two Series on RangeIndexes: aligned on the index labels, the
\* result spans the longer index and is NaN where one operand has no row
PdMul(a, b) ==
  LET n == IF Len(a) > Len(b) THEN Len(a) ELSE Len(b)
  IN  [i \in 1..n |-> IF i <= Len(a) /\ i <= Len(b) THEN RMul(a[i], b[i]) ELSE NaN]

\* a Python dict: its items in insertion order; d[key] = value
DictPut(d, key, value) ==
  IF \E j \in DOMAIN d : d[j].key = key
  THEN [j \in DOMAIN d |-> IF d[j].key = key THEN [key |-> key, value |-> value] ELSE d[j]]
  ELSE Append(d, [key |-> key, value |-> value])

DictKeys(d) == [j \in DOMAIN d |-> d[j].key]
DictGet(d, key) == d[CHOOSE j \in DOMAIN d : d[j].key = key]

\* ===================================================== mapping/init: input
\* "./input_spectra\\" as glob returns it on the platform the scripts are
\* written for (directory name shortened to one letter), and ".txt"
Dir == <<".", "/", "i", "\\">>
Ext == <<".", "t", "x", "t">>
ME == <<"_", "m", "e", "_">>
SC == <<"_", "s", "c", "_">>

PathOf(stem) == Dir \o stem \o Ext

\* the files that can lie in the folder: two anti-reflection thicknesses of
\* sample a in both states, and a second 5 nm pair whose names carry a
\* further dot ("a_me_5nm_x.b.txt")
Stems ==
  { <<"a">> \o ME \o <<"5", "n", "m", "_", "x">>,
    <<"a">> \o SC \o <<"5", "n", "m", "_", "x">>,
    <<"a">> \o ME \o <<"1", "5", "n", "m", "_", "x">>,
    <<"a">> \o SC \o <<"1", "5", "n", "m", "_", "x">>,
    <<"a">> \o ME \o <<"5", "n", "m", "_", "x", ".", "b">>,
    <<"a">> \o SC \o <<"5", "n", "m", "_", "x", ".", "b">> }

Paths == {PathOf(st) : st \in Stems}

\* every order in which glob can list up to MaxFiles distinct files
Listings ==
  UNION {{l \in [1..n -> Paths] : \A i, j \in 1..n : i # j => l[i] # l[j]} : n \in 0..MaxFiles}

\* further names a folder can hold: a second sample b and a sample a_n,
\* whose name begins with the name of sample a, each in both states at
\* 5 nm; a file that carries both state tags; a file that carries none
NameStems ==
  { <<"a">> \o ME \o <<"5", "n", "m", "_", "x">>,
    <<"a">> \o SC \o <<"5", "n", "m", "_", "x">>,
    <<"b">> \o ME \o <<"5", "n", "m", "_", "x">>,
    <<"b">> \o SC \o <<"5", "n", "m", "_", "x">>,
    <<"a", "_", "n">> \o ME \o <<"5", "n", "m", "_", "x">>,
    <<"a", "_", "n">> \o SC \o <<"5", "n", "m", "_", "x">>,
    <<"a">> \o ME \o <<"s", "c", "_", "5", "n", "m", "_", "x">>,
    <<"a", "_", "5", "n", "m", "_", "x">> }

\* every order in which glob can list up to MaxFiles of them
NameListings ==
  UNION {{l \in [1..n -> {PathOf(st) : st \in NameStems}] :
            \A i, j \in 1..n : i # j => l[i] # l[j]} : n \in 0..MaxFiles}

\* how one file of the folder departs from the others
Defects == {"none", "shifted", "short", "fractional", "columns", "reordered"}

BufferColumns == <<"0", "10">>

\* the wavelength column of a file: the solar window with one point off the
\* 1 nm grid; "shifted" starts 1 nm earlier, "short" ends before W2500,
\* "fractional" starts between two integers, "offset" covers as many
\* nanometres as the others but starts and ends 1 nm later
FileWave(defect) ==
  IF defect = "shifted" THEN <<NmTick(SolMin - 1), NmTick(SolMin) + 1, NmTick(SolMax)>>
  ELSE IF defect = "short" THEN <<NmTick(SolMin), NmTick(SolMin) + 1, NmTick(W2500) - 1>>
  ELSE IF defect = "fractional" THEN <<NmTick(SolMin) - 1, NmTick(SolMin) + 1, NmTick(SolMax)>>
  ELSE IF defect = "offset" THEN <<NmTick(SolMin + 1), NmTick(SolMin + 1) + 1, NmTick(SolMax + 1)>>
  ELSE <<NmTick(SolMin), NmTick(SolMin) + 1, NmTick(SolMax)>>

\* the transmittance a file holds in buffer column c at wavelength tick:
\* flat in the metallic state, rising with the wavelength in the
\* semiconducting state, both offset by the thickness in the file name
FileValue(path, c, tick) ==
  LET ar == IF Contains(path, <<"1", "5", "n", "m">>) THEN 15 ELSE 5
  IN  IF Contains(path, ME) THEN RInt(ar + c)
      ELSE RAdd(Rat(tick, TicksPerNm), RInt(ar + c))

\* pd.read_csv(path, sep="\t", decimal=",").dropna(axis=1) with the first
\* header renamed to "Wavelength (nm)"; a file with the defect "columns"
\* lacks the last buffer column, one with "reordered" holds the buffer
\* columns in the opposite order, each under its own header
ReadCsv(path) ==
  LET defect == IF folder.target = path THEN folder.defect ELSE "none"
      cols   == IF defect = "columns" THEN SubSeq(BufferColumns, 1, Len(BufferColumns) - 1)
                ELSE IF defect = "reordered"
                THEN [c \in DOMAIN BufferColumns |-> BufferColumns[Len(BufferColumns) + 1 - c]]
                ELSE BufferColumns
      wave   == FileWave(defect)
  IN  Frame(<<WL>> \o cols, wave,
            [c \in DOMAIN cols |->
               [i \in DOMAIN wave |->
                  FileValue(path, CHOOSE b \in DOMAIN BufferColumns : BufferColumns[b] = cols[c],
                            wave[i])]])

\* ------------------------------------------- mapping/init/load_spectra.py
\* one interpolated column put before those that follow it; done counts
\* the interpolants evaluated before the first one that raises
ConsColumn(got, rest) ==
  IF got.raised # Returned THEN [raised |-> got.raised, data |-> <<>>, done |-> 0]
  ELSE [raised |-> rest.raised, data |-> <<got.values>> \o rest.data, done |-> rest.done + 1]

\* lines 67-78 (and 88-96): every value column from position c on
\* interpolated onto the grid
RECURSIVE InterpColumns(_, _, _, _)
InterpColumns(build, raw, grid, c) ==
  IF c > Len(raw.data) THEN [raised |-> Returned, data |-> <<>>, done |-> 0]
  ELSE IF Len(raw.wave) < Interp1dMinEntries(build)
  THEN [raised |-> "ValueError", data |-> <<>>, done |-> 0]
  ELSE ConsColumn(Interp1dCall(build, raw.wave, raw.data[c], grid),
                  InterpColumns(build, raw, grid, c + 1))

\* the new DataFrame of lines 71 and 88 around the interpolated columns
NewFrame(raw, grid, got) ==
  [raised |-> got.raised, frame |-> Frame(raw.columns, grid, got.data), done |-> got.done]

\* lines 63-78 (and 85-96): the 1 nm grid from int(first) to int(last) and
\* the table resampled onto it
Resample(build, raw) ==
  IF raw.wave = <<>> THEN [raised |-> "IndexError", frame |-> raw, done |-> 0]
  ELSE IF IntNm(raw.wave[Len(raw.wave)]) - IntNm(raw.wave[1]) + 1 < 0
  THEN [raised |-> "ValueError", frame |-> raw, done |-> 0]
  ELSE NewFrame(raw, Linspace(IntNm(raw.wave[1]), IntNm(raw.wave[Len(raw.wave)])),
                InterpColumns(build, raw,
                              Linspace(IntNm(raw.wave[1]), IntNm(raw.wave[Len(raw.wave)])), 1))

\* a faulty variant: the two lists are built but their lengths are never
\* compared
PartitionUnchecked(simulated_spectra) ==
  [metallic_spectra |-> SortedStr(FilterContains(simulated_spectra, ME)),
   semiconductive_spectra |-> SortedStr(FilterContains(simulated_spectra, SC)),
   raised |-> Returned]

\* lines 29-41: glob, the two sorted lists and the count check
Partition(simulated_spectra) ==
  LET metallic_spectra == SortedStr(FilterContains(simulated_spectra, ME))
      semiconductive_spectra == SortedStr(FilterContains(simulated_spectra, SC))
  IN  [metallic_spectra |-> metallic_spectra,
       semiconductive_spectra |-> semiconductive_spectra,
       raised |-> IF Len(metallic_spectra) # Len(semiconductive_spectra)
                  THEN "FileNotFoundError" ELSE Returned]

\* a faulty variant: the comparison names the metallic file on both sides
SameSampleSelf(metallic, semiconductive) == Remove(metallic, ME) = Remove(metallic, ME)

\* line 51: the two names agree once the state tag is removed
SameSample(metallic, semiconductive) == Remove(metallic, ME) = Remove(semiconductive, SC)

\* line 101: the dictionary key of a pair
KeyOf(metallic) ==
  LET parts == Split(metallic, <<"\\">>)
  IN  Split(parts[Len(parts)], <<".">>)[1]

\* lines 56-101: the pair is stored once both tables are resampled, the
\* metallic one first
StorePair(spectra, key, me, sc) ==
  IF me.raised # Returned
  THEN [raised |-> me.raised, spectra |-> spectra, done |-> me.done]
  ELSE IF sc.raised # Returned
  THEN [raised |-> sc.raised, spectra |-> spectra, done |-> me.done + sc.done]
  ELSE [raised |-> Returned, spectra |-> DictPut(spectra, key, <<me.frame, sc.frame>>),
        done |-> me.done + sc.done]

\* a faulty variant: both files are read and resampled before the names
\* are compared
LoadOneResampleFirst(build, metallic, semiconductive, spectra) ==
  IF ~SameSample(metallic, semiconductive)
  THEN [raised |-> "NameError", spectra |-> spectra,
        done |-> Resample(build, ReadCsv(metallic)).done +
                 Resample(build, ReadCsv(semiconductive)).done]
  ELSE StorePair(spectra, KeyOf(metallic), Resample(build, ReadCsv(metallic)),
                 Resample(build, ReadCsv(semiconductive)))

\* lines 46-101: one pass of the loop over the zipped lists, on the
\* dictionary built so far
LoadOne(build, metallic, semiconductive, spectra) ==
  IF ~SameSample(metallic, semiconductive)
  THEN [raised |-> "NameError", spectra |-> spectra, done |-> 0]
  ELSE StorePair(spectra, KeyOf(metallic), Resample(build, ReadCsv(metallic)),
                 Resample(build, ReadCsv(semiconductive)))

\* -------------------------------------------- mapping/init/calculation.py
\* lines 43-45: the value columns of the three reference tables, each on a
\* RangeIndex that starts at the first wavelength of its window
d65 == LoadD65.csi
vlambda == LoadVLambda.spectral_sensistivity
astm_g_173 == LoadASTM_G_173.spectral_irradiance

\* series * w1 * w2 ... from left to right, each product index-aligned
RECURSIVE Weighted(_, _)
Weighted(series, weights) ==
  IF weights = <<>> THEN series
  ELSE Weighted(PdMul(series, Head(weights)), Tail(weights))

\* a faulty variant: the semiconducting numerator is stored undivided
RatiosUndivided(numerator_metallic, numerator_semiconductive, denominator) ==
  IF numerator_metallic.raised # Returned
  THEN [raised |-> numerator_metallic.raised, value |-> <<>>]
  ELSE IF numerator_semiconductive.raised # Returned
  THEN [raised |-> numerator_semiconductive.raised, value |-> <<>>]
  ELSE [raised |-> Returned,
        value |-> <<RDiv(numerator_metallic.value, denominator),
                    numerator_semiconductive.value,
                    RSub(numerator_semiconductive.value,
                         RDiv(numerator_metallic.value, denominator))>>]

\* lines 117-124 (and 172-179): the two ratios over the shared denominator
\* and semiconducting minus metallic
Ratios(numerator_metallic, numerator_semiconductive, denominator) ==
  IF numerator_metallic.raised # Returned
  THEN [raised |-> numerator_metallic.raised, value |-> <<>>]
  ELSE IF numerator_semiconductive.raised # Returned
  THEN [raised |-> numerator_semiconductive.raised, value |-> <<>>]
  ELSE [raised |-> Returned,
        value |-> <<RDiv(numerator_metallic.value, denominator),
                    RDiv(numerator_semiconductive.value, denominator),
                    RSub(RDiv(numerator_semiconductive.value, denominator),
                         RDiv(numerator_metallic.value, denominator))>>]

\* a result dictionary: the entry of one buffer thickness before those of
\* the thicknesses after it (the labels are distinct: read_csv renames a
\* repeated header)
ConsItem(key, one, rest) ==
  IF one.raised # Returned THEN [raised |-> one.raised, dict |-> <<>>]
  ELSE IF rest.raised # Returned THEN [raised |-> rest.raised, dict |-> <<>>]
  ELSE [raised |-> Returned, dict |-> <<[key |-> key, value |-> one.value]>> \o rest.dict]

\* lines 96-124 (and 153-179): the loop over buffer_thickness from position
\* j on; each numerator is integrated over its own table's wavelengths
RECURSIVE RatioDict(_, _, _, _, _, _)
RatioDict(me, sc, buffer_thickness, weights, denominator, j) ==
  IF j > Len(buffer_thickness) THEN [raised |-> Returned, dict |-> <<>>]
  ELSE ConsItem(buffer_thickness[j],
                Ratios(simpson(Weighted(me.data[ColumnOf(me, buffer_thickness[j])], weights),
                               me.wave),
                       simpson(Weighted(sc.data[ColumnOf(sc, buffer_thickness[j])], weights),
                               sc.wave),
                       denominator),
                RatioDict(me, sc, buffer_thickness, weights, denominator, j + 1))

\* lines 87-124 (and 144-179): the denominator, then the loop
OverDenominator(me, sc, buffer_thickness, weights, denominator) ==
  IF denominator.raised # Returned THEN [raised |-> denominator.raised, dict |-> <<>>]
  ELSE RatioDict(me, sc, buffer_thickness, weights, denominator.value, 1)

\* lines 76-124 with (weights, lo, hi) = (d65 and vlambda, 380, 780) and
\* lines 133-179 with (astm_g_173, 200, 3000): both tables cut to the
\* window, the denominator over the metallic table's wavelengths
WindowDict(metallic_map, semiconductive_map, weights, lo, hi) ==
  OverDenominator(Window(metallic_map, lo, hi), Window(semiconductive_map, lo, hi),
                  Tail(metallic_map.columns), weights,
                  simpson(Weighted(Head(weights), Tail(weights)),
                          Window(metallic_map, lo, hi).wave))

\* lines 191-199: the rows at 2500 nm keep the index labels of their tables;
\* the difference of the two one-row Series is aligned on those labels and
\* .values[0] is its first entry
T2500(metallic_map, semiconductive_map, thickness) ==
  LET t2500_metallic == {r \in DOMAIN metallic_map.wave : metallic_map.wave[r] = NmTick(W2500)}
      t2500_semiconductive ==
        {r \in DOMAIN semiconductive_map.wave : semiconductive_map.wave[r] = NmTick(W2500)}
      labels == t2500_metallic \cup t2500_semiconductive
  IN  IF labels = {} THEN [raised |-> "IndexError", value |-> <<>>]
      ELSE LET r == CHOOSE l \in labels : \A m \in labels : l <= m
           IN  [raised |-> Returned,
                value |-> IF r \in t2500_metallic /\ r \in t2500_semiconductive
                          THEN RSub(semiconductive_map.data[ColumnOf(semiconductive_map, thickness)][r],
                                    metallic_map.data[ColumnOf(metallic_map, thickness)][r])
                          ELSE NaN]

\* lines 197-199: the loop over buffer_thickness from position j on
RECURSIVE T2500Dict(_, _, _, _)
T2500Dict(metallic_map, semiconductive_map, buffer_thickness, j) ==
  IF j > Len(buffer_thickness) THEN [raised |-> Returned, dict |-> <<>>]
  ELSE ConsItem(buffer_thickness[j],
                T2500(metallic_map, semiconductive_map, buffer_thickness[j]),
                T2500Dict(metallic_map, semiconductive_map, buffer_thickness, j + 1))

\* line 202: the three dictionaries of one pair stored under the key
\* without "_me", once all three were computed
StoreResult(new_map_dict, key, tlum, tsol, t2500) ==
  IF tlum.raised # Returned THEN [raised |-> tlum.raised, new_map_dict |-> new_map_dict]
  ELSE IF tsol.raised # Returned THEN [raised |-> tsol.raised, new_map_dict |-> new_map_dict]
  ELSE IF t2500.raised # Returned THEN [raised |-> t2500.raised, new_map_dict |-> new_map_dict]
  ELSE [raised |-> Returned,
        new_map_dict |-> DictPut(new_map_dict, Remove(key, <<"_", "m", "e">>),
                                 <<tlum.dict, tsol.dict, t2500.dict>>)]

\* lines 57-202: one pass of the loop over the keys, on the results so far
CalcOne(key, pair, new_map_dict) ==
  IF pair[1].columns # pair[2].columns
  THEN [raised |-> "FileExistsError", new_map_dict |-> new_map_dict]
  ELSE StoreResult(new_map_dict, key,
                   WindowDict(pair[1], pair[2], <<d65, vlambda>>, LumMin, LumMax),
                   WindowDict(pair[1], pair[2], <<astm_g_173>>, SolMin, SolMax),
                   T2500Dict(pair[1], pair[2], Tail(pair[1].columns), 1))

\* --------------------------------------------- mapping/init/order_save.py
\* line 23: the sort key of a result key, int(x.split("_")[-2][:-2])
SortKey(x) ==
  LET parts == Split(x, <<"_">>)
  IN  IF Len(parts) < 2 THEN [raised |-> "IndexError", value |-> 0]
      ELSE LET part == parts[Len(parts) - 1]
               text == SubSeq(part, 1, Len(part) - 2)
           IN  IF CanParseInt(text) THEN [raised |-> Returned, value |-> ParseInt(text)]
               ELSE [raised |-> "ValueError", value |-> 0]

\* a faulty variant: the keys stay in the order the dictionary holds them
KeysAsStored(keys) == keys

\* sorted(keys, key=...): a stable insertion of each key by its number
RECURSIVE SortedByKey(_)
SortedByKey(keys) ==
  IF keys = <<>> THEN <<>>
  ELSE LET front == SortedByKey(SubSeq(keys, 1, Len(keys) - 1))
           x     == keys[Len(keys)]
           k     == Cardinality({j \in DOMAIN front : SortKey(front[j]).value <= SortKey(x).value})
       IN  SubSeq(front, 1, k) \o <<x>> \o SubSeq(front, k + 1, Len(front))

\* lines 26-27: int(string.split("nm")[0]) for every part of every sorted
\* key that contains "nm"
RECURSIVE Thicknesses(_)
Thicknesses(parts) ==
  IF parts = <<>> THEN <<>>
  ELSE IF Contains(Head(parts), <<"n", "m">>)
  THEN <<Split(Head(parts), <<"n", "m">>)[1]>> \o Thicknesses(Tail(parts))
  ELSE Thicknesses(Tail(parts))

RECURSIVE AllThicknesses(_)
AllThicknesses(files) ==
  IF files = <<>> THEN <<>>
  ELSE Thicknesses(Split(Head(files), <<"_">>)) \o AllThicknesses(Tail(files))

\* lines 31-39: pd.DataFrame({"": anti_reflection_thickness})
NewGrid(anti_reflection_thickness) ==
  [index |-> anti_reflection_thickness, columns |-> <<>>, cells |-> <<>>]

\* df.loc[row_index, column] = value: the cell is set; a new column is
\* appended with NaN in its other rows.  cells[c][r] is row r of column c.
SetCell(df, row_index, column, value) ==
  IF \E c \in DOMAIN df.columns : df.columns[c] = column
  THEN [df EXCEPT !.cells = [c \in DOMAIN df.cells |->
                               IF df.columns[c] = column
                               THEN [df.cells[c] EXCEPT ![row_index] = value]
                               ELSE df.cells[c]]]
  ELSE [df EXCEPT !.columns = Append(df.columns, column),
                  !.cells = Append(df.cells,
                                   [r \in DOMAIN df.index |->
                                      IF r = row_index THEN value ELSE NaN])]

GridNames ==
  <<"tlum_me", "tlum_sc", "deltaTlum", "tsol_me", "tsol_sc", "deltaTsol", "deltaT2500nm">>

\* lines 55-72: the seven cells of every buffer thickness of one result,
\* from position j on
RECURSIVE FillRow(_, _, _, _)
FillRow(frames, entry, row_index, j) ==
  LET tlum  == entry[1]
      tsol  == entry[2]
      t2500 == entry[3]
  IN  IF j > Len(tlum) THEN frames
      ELSE
        LET buffer_thickness == tlum[j].key
            values == tlum[j].value \o DictGet(tsol, buffer_thickness).value \o
                      <<DictGet(t2500, buffer_thickness).value>>
        IN  FillRow([g \in DOMAIN frames |->
                       SetCell(frames[g], row_index, buffer_thickness, values[g])],
                    entry, row_index, j + 1)

\* lines 43-72: the loop over zip(files, anti_reflection_thickness), from
\* position f on; row_index is the first row that holds the thickness
RECURSIVE Fill(_, _, _, _, _)
Fill(frames, dicts, files, anti_reflection_thickness, f) ==
  IF f > Len(files) \/ f > Len(anti_reflection_thickness) THEN frames
  ELSE
    LET ar_thickness == anti_reflection_thickness[f]
        row_index == CHOOSE r \in DOMAIN anti_reflection_thickness :
                       /\ anti_reflection_thickness[r] = ar_thickness
                       /\ \A q \in 1..(r - 1) : anti_reflection_thickness[q] # ar_thickness
    IN  Fill(FillRow(frames, DictGet(dicts, files[f]).value, row_index, 1),
             dicts, files, anti_reflection_thickness, f + 1)

\* lines 22-72: the seven DataFrames, in the order they are written later
order_and_save_result(dicts) ==
  LET keys == DictKeys(dicts)
  IN  IF \E j \in DOMAIN keys : SortKey(keys[j]).raised # Returned
      THEN [raised |-> SortKey(keys[CHOOSE j \in DOMAIN keys :
                                      /\ SortKey(keys[j]).raised # Returned
                                      /\ \A q \in 1..(j - 1) :
                                           SortKey(keys[q]).raised = Returned]).raised,
            frames |-> <<>>]
      ELSE
        LET files == SortedByKey(keys)
            texts == AllThicknesses(files)
        IN  IF \E j \in DOMAIN texts : ~CanParseInt(texts[j])
            THEN [raised |-> "ValueError", frames |-> <<>>]
            ELSE
              LET anti_reflection_thickness == [j \in DOMAIN texts |-> ParseInt(texts[j])]
              IN  [raised |-> Returned,
                   frames |-> Fill([g \in DOMAIN GridNames |->
                                      NewGrid(anti_reflection_thickness)],
                                   dicts, files, anti_reflection_thickness, 1)]

\* ------------------------------------------ single spectrum/init: loading
\* how one file of the single-spectrum folder departs from the others
SingleDefects == {"none", "short", "fractional", "offset"}

\* pd.read_csv(path, sep="\t", decimal=","): the wavelength column and the
\* one column "Transmittance (%)"
SingleReadCsv(path) ==
  Frame(<<WL, "Transmittance (%)">>, ReadCsv(path).wave, <<ReadCsv(path).data[1]>>)

\* lines 54-61 and 69, 72 (and 72-82): the interpolant of a file, the 1 nm
\* grid from int(first) to int(last) and the interpolant evaluated on it
SingleInterp(build, raw) ==
  IF Len(raw.wave) < Interp1dMinEntries(build)
  THEN [raised |-> "ValueError", grid |-> <<>>, values |-> <<>>]
  ELSE IF IntNm(raw.wave[Len(raw.wave)]) - IntNm(raw.wave[1]) + 1 < 0
  THEN [raised |-> "ValueError", grid |-> <<>>, values |-> <<>>]
  ELSE [raised |-> Interp1dCall(build, raw.wave, raw.data[1],
                                Linspace(IntNm(raw.wave[1]), IntNm(raw.wave[Len(raw.wave)]))).raised,
        grid |-> Linspace(IntNm(raw.wave[1]), IntNm(raw.wave[Len(raw.wave)])),
        values |-> Interp1dCall(build, raw.wave, raw.data[1],
                                Linspace(IntNm(raw.wave[1]), IntNm(raw.wave[Len(raw.wave)]))).values]

\* line 67: the "Filename" column of a pair
FilenameOf(metallic) ==
  LET parts == Split(Remove(metallic, ME), <<"\\">>)
  IN  Split(parts[Len(parts)], <<".">>)[1]

\* lines 66-85: the DataFrame VO2 on the metallic grid; the semiconducting
\* values are assigned to it as a column, by position, and must be as many
\* as it has rows
SingleStore(spectra, name, me, sc) ==
  IF me.raised # Returned THEN [raised |-> me.raised, spectra |-> spectra]
  ELSE IF sc.raised # Returned THEN [raised |-> sc.raised, spectra |-> spectra]
  ELSE IF Len(sc.values) # Len(me.grid) THEN [raised |-> "ValueError", spectra |-> spectra]
  ELSE [raised |-> Returned,
        spectra |-> Append(spectra,
                           [Filename |-> name,
                            frame |-> Frame(<<WL, "Transmittance (%) - metallic",
                                              "Transmittance (%) - semiconductive">>, me.grid,
                                            <<me.values, sc.values>>)])]

\* lines 43-85: one pass of the loop over the zipped lists, on the list
\* built so far
SingleLoadOne(build, metallic, semiconductive, spectra) ==
  IF ~SameSample(metallic, semiconductive)
  THEN [raised |-> "NameError", spectra |-> spectra]
  ELSE SingleStore(spectra, FilenameOf(metallic),
                   SingleInterp(build, SingleReadCsv(metallic)),
                   SingleInterp(build, SingleReadCsv(semiconductive)))

\* -------------------------------------- single spectrum/init: calculation
\* a * b for a Series whose labels start at k (a window cut without
\* reset_index) and a Series on a RangeIndex: aligned on the labels
PdMulAt(a, k, b) ==
  LET n == IF k + Len(a) > Len(b) THEN k + Len(a) ELSE Len(b)
  IN  [i \in 1..n |-> IF i > k /\ i <= k + Len(a) /\ i <= Len(b)
                      THEN RMul(a[i - k], b[i]) ELSE NaN]

\* lines 63-90 with k = 0 (the Tlum window is cut with reset_index) and
\* lines 104-129 with k the rows the Tsol window leaves out at its start:
\* the denominator, the two numerators, the ratios and their difference
SingleRatios(window, k, weights) ==
  IF simpson(Weighted(Head(weights), Tail(weights)), window.wave).raised # Returned
  THEN [raised |-> simpson(Weighted(Head(weights), Tail(weights)), window.wave).raised,
        value |-> <<>>]
  ELSE Ratios(simpson(Weighted(PdMulAt(window.data[1], k, Head(weights)), Tail(weights)),
                      window.wave),
              simpson(Weighted(PdMulAt(window.data[2], k, Head(weights)), Tail(weights)),
                      window.wave),
              simpson(Weighted(Head(weights), Tail(weights)), window.wave).value)

\* lines 138-140: semiconducting minus metallic in the first row at 2500 nm
SingleT2500(frame) ==
  IF \A r \in DOMAIN frame.wave : frame.wave[r] # NmTick(W2500)
  THEN [raised |-> "IndexError", value |-> <<>>]
  ELSE [raised |-> Returned,
        value |-> RSub(frame.data[2][CHOOSE r \in DOMAIN frame.wave : frame.wave[r] = NmTick(W2500)],
                       frame.data[1][CHOOSE r \in DOMAIN frame.wave : frame.wave[r] = NmTick(W2500)])]

\* lines 143-150: the one-row DataFrame of the results
SingleRow(name, tlum, tsol, t2500) ==
  IF tlum.raised # Returned THEN [raised |-> tlum.raised, row |-> <<>>]
  ELSE IF tsol.raised # Returned THEN [raised |-> tsol.raised, row |-> <<>>]
  ELSE IF t2500.raised # Returned THEN [raised |-> t2500.raised, row |-> <<>>]
  ELSE [raised |-> Returned,
        row |-> [Filename |-> name, values |-> tlum.value \o tsol.value \o <<t2500.value>>]]

\* lines 56-150: the body of the loop for one DataFrame of the list
SingleCalcOne(spectra) ==
  SingleRow(spectra.Filename,
            SingleRatios(Window(spectra.frame, LumMin, LumMax), 0, <<d65, vlambda>>),
            SingleRatios(Window(spectra.frame, SolMin, SolMax),
                         Cardinality({r \in DOMAIN spectra.frame.wave :
                                        spectra.frame.wave[r] < NmTick(SolMin)}),
                         <<astm_g_173>>),
            SingleT2500(spectra.frame))

\* ------------------------------------------------------ library: inputs
Ndarray(data) == [type |-> "ndarray", data |-> data]
PyList(data) == [type |-> "list", data |-> data]

MaxTick == NmTick(SolMax + 1)

\* a wavelength column sampled every d ticks from tick f, n points
Sampled(f, d, n) == [i \in 1..n |-> f + (i - 1) * d]

Reverse(s) == [i \in DOMAIN s |-> s[Len(s) + 1 - i]]

\* the wavelength columns a file can hold: sampled upwards (d = 0 repeats a
\* wavelength) or stored in descending order
WaveColumns ==
  LET up == {Sampled(f, d, n) : f \in NmTick(1)..NmTick(MaxFirstNm),
                                d \in 0..MaxStep, n \in 0..MaxLen}
      ok == {w \in up : \A i \in DOMAIN w : w[i] <= MaxTick}
  IN  ok \cup {Reverse(w) : w \in ok}

\* the transmittance column: flat, or rising with the row
Profiles == {"flat", "ramp"}
Column(profile, n) == [i \in 1..n |-> IF profile = "flat" THEN RInt(2) ELSE RInt(i)]

\* read(filepath): a new object filled by set_properties from the two
\* columns of the file
read(w, profile) ==
  set_properties(NewSpectrum, Ndarray(w), Ndarray(Column(profile, Len(w)))).self

\* the second argument: a spectrum on the whole 1 nm grid, one that ends
\* before W2500, and an object that is no TransmittanceSpectrum
OtherArgs ==
  { [type |-> "TransmittanceSpectrum",
     wavelength |-> NmRange(1, SolMax + 1),
     transmittance |-> Column("ramp", SolMax + 1)],
    [type |-> "TransmittanceSpectrum",
     wavelength |-> NmRange(SolMin, LumMax),
     transmittance |-> Column("flat", LumMax - SolMin + 1)],
    [type |-> "DataFrame",
     wavelength |-> NmRange(1, SolMax + 1),
     transmittance |-> Column("ramp", SolMax + 1)] }

\* the arguments of a later set_properties call
SetWavelengths ==
  { Ndarray(Sampled(NmTick(SolMin), NmTick(1), 2)),
    Ndarray(Sampled(NmTick(SolMax) + 1, 1, 2)),
    PyList(Sampled(NmTick(SolMin), NmTick(1), 2)) }
SetTransmittances ==
  { Ndarray(Column("ramp", 2)), PyList(Column("flat", 2)) }

\* ----------------------------------------------------- library: actions
\* a call as result records it: before holds the arguments as they were when
\* the call began
NoCall == [op |-> "none", args |-> <<>>, raised |-> Returned, value |-> <<>>,
           trace |-> <<>>, before |-> <<>>, build |-> "none"]

Call(op, args, out, before, build) ==
  [op |-> op, args |-> args, raised |-> out.raised, value |-> out.value,
   trace |-> out.trace, before |-> before, build |-> build]

Arg(name) == IF name = "sample" THEN sample ELSE other

LibInit ==
  /\ sample \in {NewSpectrum} \cup {read(w, p) : w \in WaveColumns, p \in Profiles}
  /\ other \in OtherArgs
  /\ reference = [D65 |-> LoadD65, VLambda |-> LoadVLambda, ASTM_G_173 |-> LoadASTM_G_173]
  /\ result = NoCall

SetProperties ==
  \E wl \in SetWavelengths, tr \in SetTransmittances :
    \E out \in {set_properties(sample, wl, tr)} :
        /\ sample' = out.self
        /\ result' = [NoCall EXCEPT !.op = "set_properties", !.args = <<"sample">>,
                                    !.raised = out.raised, !.before = <<sample>>]
        /\ UNCHANGED <<other, reference>>

Interpolate ==
  \E build \in Builds :
    \E out \in {interpolate(build, sample)} :
        /\ sample' = out.self
        /\ result' = [NoCall EXCEPT !.op = "interpolate", !.args = <<"sample">>,
                                    !.raised = out.raised, !.before = <<sample>>,
                                    !.build = build]
        /\ UNCHANGED <<other, reference>>

\* the argument named name becomes what the call left of it
Rebind(name, self) ==
  /\ sample' = IF name = "sample" THEN self ELSE sample
  /\ other' = IF name = "other" THEN self ELSE other

CalculateTlum ==
  \E name \in {"sample", "other"} :
    \E out \in {calculate_tlum(Arg(name))} :
        /\ Rebind(name, out.self)
        /\ result' = Call("calculate_tlum", <<name>>, out, <<Arg(name)>>, "none")
        /\ UNCHANGED reference

CalculateTsol ==
  \E name \in {"sample", "other"} :
    \E out \in {calculate_tsol(Arg(name))} :
        /\ Rebind(name, out.self)
        /\ result' = Call("calculate_tsol", <<name>>, out, <<Arg(name)>>, "none")
        /\ UNCHANGED reference

CalculateTstroke ==
  \E sc \in {"sample", "other"} :
    \E me \in {"sample", "other"} \ {sc} :
      \E out \in {calculate_tstroke(Arg(sc), Arg(me))} :
        /\ sample' = IF sc = "sample" THEN out.self[1] ELSE out.self[2]
        /\ other' = IF sc = "other" THEN out.self[1] ELSE out.self[2]
        /\ result' = Call("calculate_tstroke", <<sc, me>>, out, <<Arg(sc), Arg(me)>>, "none")
        /\ UNCHANGED reference

vars == <<sample, other, reference, result, folder, pc, loader, calc, grids, output, error>>

sweep == <<folder, pc, loader, calc, grids, output, error>>

Next ==
  \/ SetProperties /\ UNCHANGED sweep
  \/ Interpolate /\ UNCHANGED sweep
  \/ CalculateTlum /\ UNCHANGED sweep
  \/ CalculateTsol /\ UNCHANGED sweep
  \/ CalculateTstroke /\ UNCHANGED sweep

\* ---------------------------------------------------------- sweep: steps
NoLoader == [metallic_spectra |-> <<>>, semiconductive_spectra |-> <<>>, i |-> 0,
             spectra |-> <<>>, resampled |-> 0]

NoCalc == [map_dict |-> <<>>, keys |-> <<>>, k |-> 0, new_map_dict |-> <<>>]

\* before main.py runs: nothing loaded, nothing computed, nothing written
NotStarted ==
  /\ pc = "start"
  /\ loader = NoLoader
  /\ calc = NoCalc
  /\ grids = <<>>
  /\ output = <<>>
  /\ error = Returned

\* an exception leaves order_and_save_result: nothing further happens
Raise(kind) ==
  /\ pc' = "failed"
  /\ error' = kind

\* load_spectra lines 29-41
LoadStart ==
  /\ pc = "start"
  /\ \E lists \in {Partition(folder.listing)} :
         /\ loader' = [loader EXCEPT !.metallic_spectra = lists.metallic_spectra,
                                     !.semiconductive_spectra = lists.semiconductive_spectra]
         /\ IF lists.raised # Returned THEN Raise(lists.raised)
            ELSE pc' = "load" /\ UNCHANGED error
  /\ UNCHANGED <<folder, calc, grids, output>>

\* zip(metallic_spectra, semiconductive_spectra) stops with the shorter list
Zipped == IF Len(loader.metallic_spectra) < Len(loader.semiconductive_spectra)
          THEN Len(loader.metallic_spectra) ELSE Len(loader.semiconductive_spectra)

\* load_spectra lines 46-101, one pair
LoadPair ==
  /\ pc = "load"
  /\ loader.i < Zipped
  /\ \E build \in Builds :
       \E out \in {LoadOne(build, loader.metallic_spectra[loader.i + 1],
                            loader.semiconductive_spectra[loader.i + 1], loader.spectra)} :
           /\ loader' = [loader EXCEPT !.i = IF out.raised = Returned THEN @ + 1 ELSE @,
                                       !.spectra = out.spectra,
                                       !.resampled = @ + out.done]
           /\ IF out.raised # Returned THEN Raise(out.raised)
              ELSE UNCHANGED <<pc, error>>
  /\ UNCHANGED <<folder, calc, grids, output>>

\* load_spectra line 105 and calculation lines 48-53
LoadReturn ==
  /\ pc = "load"
  /\ loader.i = Zipped
  /\ calc' = [map_dict |-> loader.spectra, keys |-> DictKeys(loader.spectra),
              k |-> 0, new_map_dict |-> <<>>]
  /\ pc' = "calc"
  /\ UNCHANGED <<folder, loader, grids, output, error>>

\* calculation lines 57-202, one key
CalcPair ==
  /\ pc = "calc"
  /\ calc.k < Len(calc.keys)
  /\ \E out \in {CalcOne(calc.keys[calc.k + 1],
                           DictGet(calc.map_dict, calc.keys[calc.k + 1]).value,
                           calc.new_map_dict)} :
         /\ calc' = [calc EXCEPT !.k = IF out.raised = Returned THEN @ + 1 ELSE @,
                                 !.new_map_dict = out.new_map_dict]
         /\ IF out.raised # Returned THEN Raise(out.raised)
            ELSE UNCHANGED <<pc, error>>
  /\ UNCHANGED <<folder, loader, grids, output>>

\* calculation line 204 and order_save line 18
CalcReturn ==
  /\ pc = "calc"
  /\ calc.k = Len(calc.keys)
  /\ pc' = "assemble"
  /\ UNCHANGED <<folder, loader, calc, grids, output, error>>

\* order_save lines 22-72
Assemble ==
  /\ pc = "assemble"
  /\ \E out \in {order_and_save_result(calc.new_map_dict)} :
         /\ grids' = out.frames
         /\ IF out.raised # Returned THEN Raise(out.raised)
            ELSE pc' = "save" /\ UNCHANGED error
  /\ UNCHANGED <<folder, loader, calc, output>>

\* order_save lines 75-83, one to_csv
SaveGrid ==
  /\ pc = "save"
  /\ output' = Append(output, [file |-> GridNames[Len(output) + 1],
                               frame |-> grids[Len(output) + 1]])
  /\ pc' = IF Len(output) + 1 = Len(GridNames) THEN "done" ELSE "save"
  /\ UNCHANGED <<folder, loader, calc, grids, error>>

library == <<sample, other, reference, result>>

NextSweep ==
  \/ LoadStart /\ UNCHANGED library
  \/ LoadPair /\ UNCHANGED library
  \/ LoadReturn /\ UNCHANGED library
  \/ CalcPair /\ UNCHANGED library
  \/ CalcReturn /\ UNCHANGED library
  \/ Assemble /\ UNCHANGED library
  \/ SaveGrid /\ UNCHANGED library

\* the folder as main.py finds it: any listing, at most one file departing
\* from the common layout
Folders ==
  {[listing |-> l, target |-> <<>>, defect |-> "none"] : l \in Listings} \cup
  {[listing |-> l, target |-> t, defect |-> d] :
     l \in Listings, t \in Paths, d \in Defects \ {"none"}}

Init ==
  /\ LibInit
  /\ folder = [listing |-> <<>>, target |-> <<>>, defect |-> "none"]
  /\ NotStarted

InitSweep ==
  /\ sample = NewSpectrum
  /\ other = NewSpectrum
  /\ reference = [D65 |-> LoadD65, VLambda |-> LoadVLambda, ASTM_G_173 |-> LoadASTM_G_173]
  /\ result = NoCall
  /\ folder \in {f \in Folders : f.target = <<>> \/ \E j \in DOMAIN f.listing : f.listing[j] = f.target}
  /\ NotStarted

\* the sweep over a folder all of whose files have the common layout
InitPairing ==
  /\ InitSweep
  /\ folder.defect = "none"

\* ------------------------------------------- single spectrum: the script
\* what input("Please set a filename:") can return
Filenames == {<<>>, <<"x">>}

NoSingleCalc == [filename |-> <<>>, spectra |-> <<>>, results |-> <<>>]

\* calculation lines 33-45 and load_spectra lines 28-39
SingleStart ==
  /\ pc = "start"
  /\ \E filename \in Filenames :
       IF filename = <<>>
       THEN Raise("NameError") /\ UNCHANGED <<loader, calc>>
       ELSE \E lists \in {Partition(folder.listing)} :
              /\ calc' = [calc EXCEPT !.filename = filename]
              /\ loader' = [loader EXCEPT !.metallic_spectra = lists.metallic_spectra,
                                          !.semiconductive_spectra = lists.semiconductive_spectra]
              /\ IF lists.raised # Returned THEN Raise(lists.raised)
                 ELSE pc' = "load" /\ UNCHANGED error
  /\ UNCHANGED <<folder, grids, output>>

\* load_spectra lines 43-85, one pair
SingleLoadPair ==
  /\ pc = "load"
  /\ loader.i < Zipped
  /\ \E build \in Builds :
       \E out \in {SingleLoadOne(build, loader.metallic_spectra[loader.i + 1],
                                  loader.semiconductive_spectra[loader.i + 1], loader.spectra)} :
           /\ loader' = [loader EXCEPT !.i = IF out.raised = Returned THEN @ + 1 ELSE @,
                                       !.spectra = out.spectra]
           /\ IF out.raised # Returned THEN Raise(out.raised)
              ELSE UNCHANGED <<pc, error>>
  /\ UNCHANGED <<folder, calc, grids, output>>

\* load_spectra line 88 and calculation line 45
SingleLoadReturn ==
  /\ pc = "load"
  /\ loader.i = Zipped
  /\ calc' = [calc EXCEPT !.spectra = loader.spectra]
  /\ pc' = "calc"
  /\ UNCHANGED <<folder, loader, grids, output, error>>

\* calculation lines 48-154: the loop, which is left by the return at the
\* end of its first pass; over an empty list calculate returns None
SingleCalculate ==
  /\ pc = "calc"
  /\ IF calc.spectra = <<>>
     THEN pc' = "done" /\ UNCHANGED <<calc, output, error>>
     ELSE \E out \in {SingleCalcOne(calc.spectra[1])} :
            IF out.raised # Returned
            THEN Raise(out.raised) /\ UNCHANGED <<calc, output>>
            ELSE /\ calc' = [calc EXCEPT !.results = <<out.row>>]
                 /\ output' = Append(output, [file |-> calc.filename, frame |-> out.row])
                 /\ pc' = "done"
                 /\ UNCHANGED error
  /\ UNCHANGED <<folder, loader, grids>>

NextSingle ==
  \/ SingleStart /\ UNCHANGED library
  \/ SingleLoadPair /\ UNCHANGED library
  \/ SingleLoadReturn /\ UNCHANGED library
  \/ SingleCalculate /\ UNCHANGED library

\* the folder as single spectrum/main.py finds it
InitSingle ==
  /\ sample = NewSpectrum
  /\ other = NewSpectrum
  /\ reference = [D65 |-> LoadD65, VLambda |-> LoadVLambda, ASTM_G_173 |-> LoadASTM_G_173]
  /\ result = NoCall
  /\ folder \in {[listing |-> l, target |-> <<>>, defect |-> "none"] : l \in Listings} \cup
                {f \in [listing : Listings, target : Paths, defect : SingleDefects \ {"none"}] :
                   \E j \in DOMAIN f.listing : f.listing[j] = f.target}
  /\ pc = "start"
  /\ loader = NoLoader
  /\ calc = NoSingleCalc
  /\ grids = <<>>
  /\ output = <<>>
  /\ error = Returned

\* the sweep over a folder of well-formed files under the further names
InitNaming ==
  /\ sample = NewSpectrum
  /\ other = NewSpectrum
  /\ reference = [D65 |-> LoadD65, VLambda |-> LoadVLambda, ASTM_G_173 |-> LoadASTM_G_173]
  /\ result = NoCall
  /\ folder \in {[listing |-> l, target |-> <<>>, defect |-> "none"] : l \in NameListings}
  /\ NotStarted

Spec == Init /\ [][Next]_vars

SpecSweep == InitSweep /\ [][NextSweep]_vars

SpecPairing == InitPairing /\ [][NextSweep]_vars

SpecNaming == InitNaming /\ [][NextSweep]_vars

SpecSingle == InitSingle /\ [][NextSingle]_vars

\* =============================================================== properties
Calculators == {"calculate_tlum", "calculate_tsol", "calculate_tstroke"}

Loaded == [D65 |-> LoadD65, VLambda |-> LoadVLambda, ASTM_G_173 |-> LoadASTM_G_173]

\* the arguments of the last call as they are now
ArgsNow == [i \in DOMAIN result.args |-> Arg(result.args[i])]

Consistent(s) == IsSpectrum(s) /\ Len(s.wavelength) = Len(s.transmittance)

Has2500(s) == \E i \in DOMAIN s.wavelength : s.wavelength[i] = NmTick(W2500)

NoOverlap(s, refw) ==
  \A i \in DOMAIN s.wavelength : s.wavelength[i] < SeqMin(refw) \/ s.wavelength[i] > SeqMax(refw)

StrictlyIncreasing(w) == \A i \in 1..(Len(w) - 1) : w[i] < w[i + 1]

\* C6: calculate_tstroke on two spectra fails, returning no value, whenever
\* 2500 nm is missing from the wavelength axis of either of them (of one
\* alone included), and it returns a value only when both hold it.
C6_ExactPointMissing ==
  (result.op = "calculate_tstroke" /\ \A i \in 1..2 : IsSpectrum(result.before[i])) =>
    /\ (\E i \in 1..2 : ~Has2500(result.before[i])) =>
         result.raised \in {"IndexError", "ValueError"} /\ result.value = <<>>
    /\ result.raised = Returned => \A i \in 1..2 : Has2500(result.before[i])

\* C6 happens: the semiconducting spectrum holds 2500 nm, the metallic one
\* does not, and the call has failed
C6_Witness ==
  /\ result.op = "calculate_tstroke"
  /\ \A i \in 1..2 : Consistent(result.before[i])
  /\ Has2500(result.before[1])
  /\ ~Has2500(result.before[2])
  /\ result.raised = "IndexError"

\* C7: calculate_tsol and calculate_tlum on a spectrum none of whose
\* wavelengths lies in the range of the reference fail and return no number.
C7_DomainMismatch ==
  /\ (result.op = "calculate_tsol" /\ IsSpectrum(result.before[1])
        /\ NoOverlap(result.before[1], ASTM_G_173.wavelength)) =>
       /\ result.raised \in {"ValueError", "IndexError"}
       /\ result.value = <<>>
       /\ result.trace # Stages(5)
  /\ (result.op = "calculate_tlum" /\ IsSpectrum(result.before[1])
        /\ NoOverlap(result.before[1], D65.wavelength)) =>
       /\ result.raised \in {"ValueError", "IndexError"}
       /\ result.value = <<>>
       /\ result.trace # Stages(5)

\* C7 happens: calculate_tsol was called on a two-point spectrum that lies
\* wholly above the solar range, and failed in the multiplication
C7_Witness ==
  /\ result.op = "calculate_tsol"
  /\ Consistent(result.before[1])
  /\ Len(result.before[1].wavelength) = 2
  /\ \A i \in 1..2 : result.before[1].wavelength[i] > SeqMax(ASTM_G_173.wavelength)
  /\ result.raised = "ValueError"
  /\ result.trace = Stages(3)

\* C8: each calculator raises TSolLumError when an argument is no
\* TransmittanceSpectrum, and has then gone through nothing but isinstance
\* checks: no mask, no integration, no read of the argument's data; for
\* calculate_tstroke this holds for either argument.
C8_TypeCheckFirst ==
  (result.op \in Calculators /\ \E i \in DOMAIN result.before : ~IsSpectrum(result.before[i])) =>
    /\ result.raised = "TSolLumError"
    /\ result.value = <<>>
    /\ \A k \in DOMAIN result.trace : result.trace[k] = "isinstance"

\* C8 happens: calculate_tstroke was handed a spectrum first and another
\* kind of object second, and raised TSolLumError
C8_Witness ==
  /\ result.op = "calculate_tstroke"
  /\ IsSpectrum(result.before[1])
  /\ ~IsSpectrum(result.before[2])
  /\ result.raised = "TSolLumError"

\* C9: when interpolate has succeeded on a spectrum with at least 2 strictly
\* increasing wavelengths, interpolating the outcome again, on either scipy
\* build, succeeds and leaves the same wavelengths and the same
\* transmittances.
C9_Idempotent ==
  (/\ result.op = "interpolate"
   /\ result.raised = Returned
   /\ Len(result.before[1].wavelength) >= 2
   /\ StrictlyIncreasing(result.before[1].wavelength)) =>
    \A build \in Builds :
      /\ interpolate(build, sample).raised = Returned
      /\ interpolate(build, sample).self.wavelength = sample.wavelength
      /\ interpolate(build, sample).self.transmittance = sample.transmittance

\* C10 as the specification states it: after interpolate the spectrum still
\* holds its original wavelengths and transmittances, and the calculators
\* leave their arguments and the reference spectra unchanged.
C10_NeverMutates ==
  /\ reference = Loaded
  /\ result.op \in Calculators \cup {"interpolate"} => ArgsNow = result.before

\* C10 amended: interpolate returns nothing and replaces the wavelengths of
\* the spectrum it is called on by the 1 nm grid from int(first) to
\* int(last) and its transmittances by one value per grid point; the
\* calculators leave their arguments and the reference spectra unchanged.
C10_InPlaceResample ==
  /\ reference = Loaded
  /\ result.op \in Calculators => ArgsNow = result.before
  /\ (result.op = "interpolate" /\ result.raised = Returned) =>
       /\ result.value = <<>>
       /\ sample.wavelength =
            [i \in 1..(IntNm(result.before[1].wavelength[Len(result.before[1].wavelength)])
                         - IntNm(result.before[1].wavelength[1]) + 1) |->
               NmTick(IntNm(result.before[1].wavelength[1]) + i - 1)]
       /\ Len(sample.transmittance) = Len(sample.wavelength)

\* C10 happens: a successful interpolate has changed the spectrum it was
\* called on
C10_Witness ==
  /\ result.op = "interpolate"
  /\ result.raised = Returned
  /\ sample # result.before[1]
  /\ Len(sample.wavelength) > Len(result.before[1].wavelength)


\* ---------------------------------------------- properties: library, later
Irregular(w) == Len(w) < 2 \/ ~StrictlyIncreasing(w)

Integrators == {"calculate_tlum", "calculate_tsol"}

\* C11: a spectrum with fewer than 2 points, or whose wavelengths are not
\* strictly increasing, is rejected: set_properties never stores such
\* arrays, and interpolate, calculate_tlum and calculate_tsol never return
\* from a call on such a spectrum.
C11_RejectsIrregular ==
  /\ (result.op = "set_properties" /\ result.raised = Returned) =>
       ~Irregular(sample.wavelength)
  /\ (/\ result.op \in Integrators \cup {"interpolate"}
      /\ IsSpectrum(result.before[1])
      /\ Irregular(result.before[1].wavelength)) =>
       result.raised # Returned


\* the reference wavelengths a calculator restricts its argument to
RefOf(op) == IF op = "calculate_tlum" THEN D65.wavelength ELSE ASTM_G_173.wavelength

\* how many points of a spectrum lie in the range of the reference
Restricted(s, op) ==
  Cardinality({i \in DOMAIN s.wavelength :
                 /\ s.wavelength[i] >= SeqMin(RefOf(op))
                 /\ s.wavelength[i] <= SeqMax(RefOf(op))})

\* C12: calculate_tlum and calculate_tsol fail, returning nothing, on a
\* spectrum with only 1 or 2 points in the range of the reference, and a
\* value they return was integrated over at least 3 points.
C12_InsufficientSamples ==
  (result.op \in Integrators /\ IsSpectrum(result.before[1])) =>
    /\ Restricted(result.before[1], result.op) \in {1, 2} =>
         /\ result.raised \in {"ValueError", "IndexError"}
         /\ result.value = <<>>
    /\ result.raised = Returned => Restricted(result.before[1], result.op) >= 3

\* C12 happens: calculate_tlum was called on a spectrum with one point in
\* the range of D65; the product was broadcast and simpson refused it
C12_Witness ==
  /\ result.op = "calculate_tlum"
  /\ Consistent(result.before[1])
  /\ Restricted(result.before[1], "calculate_tlum") = 1
  /\ result.raised = "ValueError"
  /\ result.trace = Stages(4)


\* consecutive whole nanometres
OneNmGrid(w) ==
  /\ w # <<>>
  /\ \A i \in DOMAIN w : w[i] % TicksPerNm = 0
  /\ \A i \in 1..(Len(w) - 1) : w[i + 1] = w[i] + TicksPerNm

Covers(w, refw) == w[1] <= SeqMin(refw) /\ w[Len(w)] >= SeqMax(refw)

Constant(t) == \A i, j \in DOMAIN t : t[i] = t[j]

PartlyOverlaps(w, refw) ==
  /\ \E i \in DOMAIN w : w[i] >= SeqMin(refw) /\ w[i] <= SeqMax(refw)
  /\ SeqMin(w) > SeqMin(refw) \/ SeqMax(w) < SeqMax(refw)

\* C15: on a spectrum on a 1 nm grid whose range only partly overlaps the
\* range of the reference, with at least 3 points in common, calculate_tlum
\* and calculate_tsol restrict the reference weights to the common
\* wavelengths as well and return a value.
C15_RestrictedToIntersection ==
  (/\ result.op \in Integrators
   /\ Consistent(result.before[1])
   /\ OneNmGrid(result.before[1].wavelength)
   /\ PartlyOverlaps(result.before[1].wavelength, RefOf(result.op))
   /\ Restricted(result.before[1], result.op) >= 3) =>
    /\ result.raised = Returned
    /\ result.value # <<>>


\* C16: interpolate on a spectrum with at least 2 strictly increasing
\* wavelengths, whole or fractional, queries the interpolant only at
\* wavelengths between the first and the last one: every point of the new
\* grid lies in that range and the call raises no domain error.
C16_GridInsideDomain ==
  (/\ result.op = "interpolate"
   /\ Consistent(result.before[1])
   /\ Len(result.before[1].wavelength) >= 2
   /\ StrictlyIncreasing(result.before[1].wavelength)) =>
    /\ \A i \in DOMAIN sample.wavelength :
         /\ sample.wavelength[i] >= result.before[1].wavelength[1]
         /\ sample.wavelength[i] <= result.before[1].wavelength[Len(result.before[1].wavelength)]
    /\ result.raised # "ValueError"


\* floor of the first and of the last wavelength the call was given, in nm
FloorFirst == result.before[1].wavelength[1] \div TicksPerNm
FloorLast ==
  result.before[1].wavelength[Len(result.before[1].wavelength)] \div TicksPerNm

\* C17: after a successful interpolate the wavelengths are the integers
\* floor(first), floor(first) + 1, ..., floor(last) in increasing order,
\* a single one when the two floors agree, and there are as many
\* transmittances as wavelengths.
C17_IntegerGrid ==
  (result.op = "interpolate" /\ result.raised = Returned) =>
    /\ Len(sample.wavelength) = FloorLast - FloorFirst + 1
    /\ \A i \in DOMAIN sample.wavelength :
         sample.wavelength[i] = (FloorFirst + i - 1) * TicksPerNm
    /\ FloorFirst = FloorLast => Len(sample.wavelength) = 1
    /\ Len(sample.transmittance) = Len(sample.wavelength)

\* C17 happens: two wavelengths inside one nanometre were resampled to
\* the single integer below them
C17_Witness ==
  /\ result.op = "interpolate"
  /\ result.raised = Returned
  /\ Len(result.before[1].wavelength) = 2
  /\ StrictlyIncreasing(result.before[1].wavelength)
  /\ FloorFirst = FloorLast
  /\ Len(sample.wavelength) = 1
  /\ Len(sample.transmittance) = 1


\* the calculator named op applied to a spectrum
Apply(op, s) == IF op = "calculate_tlum" THEN calculate_tlum(s) ELSE calculate_tsol(s)

\* C18: calculate_tlum and calculate_tsol resample their argument first:
\* on a spectrum with at least 2 strictly increasing wavelengths whose
\* resampled form the calculator accepts, the call on the spectrum as
\* given returns too, with the value of the call on the resampled form.
C18_ResamplesFirst ==
  \A build \in Builds :
    (/\ result.op \in Integrators
     /\ Consistent(result.before[1])
     /\ Len(result.before[1].wavelength) >= 2
     /\ StrictlyIncreasing(result.before[1].wavelength)
     /\ interpolate(build, result.before[1]).raised = Returned
     /\ Apply(result.op, interpolate(build, result.before[1]).self).raised = Returned) =>
      /\ result.raised = Returned
      /\ result.value = Apply(result.op, interpolate(build, result.before[1]).self).value


\* ------------------------------------------------------ properties: sweep
\* the file name without its state tag
Stripped(path) == Remove(Remove(path, ME), SC)

\* the zipped pair at position j carries two different names
Mismatched(j) ==
  Stripped(loader.metallic_spectra[j]) # Stripped(loader.semiconductive_spectra[j])

CountsDiffer ==
  Cardinality({j \in DOMAIN folder.listing : Contains(folder.listing[j], ME)}) #
  Cardinality({j \in DOMAIN folder.listing : Contains(folder.listing[j], SC)})

\* the value a table holds at 2500 nm in the column with the given label
Value2500(table, label) ==
  table.data[ColumnOf(table, label)][CHOOSE r \in DOMAIN table.wave :
                                       table.wave[r] = NmTick(W2500)]

\* the two tables a result was computed from
PairOf(key) ==
  calc.map_dict[CHOOSE m \in DOMAIN calc.map_dict :
                  Remove(calc.map_dict[m].key, <<"_", "m", "e">>) = key].value

\* C1: in every result of the sweep and for every buffer thickness, each
\* delta is the semiconducting value minus the metallic one: delta_tlum and
\* delta_tsol of the two ratios, and delta_t2500 of the transmittances the
\* two tables hold at 2500 nm.
C1_SignConvention ==
  \A n \in DOMAIN calc.new_map_dict :
    LET tlum  == calc.new_map_dict[n].value[1]
        tsol  == calc.new_map_dict[n].value[2]
        t2500 == calc.new_map_dict[n].value[3]
        pair  == PairOf(calc.new_map_dict[n].key)
    IN  /\ \A j \in DOMAIN tlum : tlum[j].value[3] = RSub(tlum[j].value[2], tlum[j].value[1])
        /\ \A j \in DOMAIN tsol : tsol[j].value[3] = RSub(tsol[j].value[2], tsol[j].value[1])
        /\ \A j \in DOMAIN t2500 :
             t2500[j].value = RSub(Value2500(pair[2], t2500[j].key),
                                   Value2500(pair[1], t2500[j].key))

\* C2: when the folder holds different numbers of "_me_" and "_sc_" files,
\* load_spectra raises its count error (FileNotFoundError) and has by then
\* formed no pair and resampled no column.
C2_CountMismatch ==
  (pc # "start" /\ CountsDiffer) =>
    /\ pc = "failed"
    /\ error = "FileNotFoundError"
    /\ loader.i = 0
    /\ loader.spectra = <<>>
    /\ loader.resampled = 0
    /\ calc = NoCalc

\* C2 happens: three files, both states among them, and the count error
C2_Witness ==
  /\ Len(folder.listing) = 3
  /\ loader.metallic_spectra # <<>>
  /\ loader.semiconductive_spectra # <<>>
  /\ pc = "failed"
  /\ error = "FileNotFoundError"

C4_PermutationInvariant ==
  pc # "start" =>
    \A l \in Listings :
      (Len(l) = Len(folder.listing) /\ \A j \in DOMAIN l : \E k \in DOMAIN l : folder.listing[k] = l[j]) =>
        \E lists \in {Partition(l)} :
          /\ lists.metallic_spectra = loader.metallic_spectra
          /\ lists.semiconductive_spectra = loader.semiconductive_spectra
          /\ (lists.raised = "FileNotFoundError") = (error = "FileNotFoundError")

\* C4 happens: two pairs were formed from a listing that is in neither
\* list's sorted order
C4_Witness ==
  /\ pc = "load"
  /\ loader.i = 2
  /\ loader.metallic_spectra # FilterContains(folder.listing, ME)
  /\ loader.semiconductive_spectra # FilterContains(folder.listing, SC)

\* C5: once any step has raised, no grid is ever written; and a grid is
\* written only when every zipped pair has been loaded and every loaded
\* pair has been computed.
C5_NoPartialGrids ==
  /\ error # Returned => output = <<>>
  /\ output # <<>> =>
       /\ loader.i = Len(loader.metallic_spectra)
       /\ loader.i = Len(loader.semiconductive_spectra)
       /\ Len(calc.map_dict) = loader.i
       /\ Len(calc.new_map_dict) = Len(calc.map_dict)
       /\ \A n \in DOMAIN calc.map_dict :
            calc.map_dict[n].value[1].columns = calc.map_dict[n].value[2].columns


\* the anti-reflection thickness a file name of the folder carries
ArOf(name) == IF Contains(name, <<"1", "5", "n", "m">>) THEN 15 ELSE 5

\* C13: whatever the order of the listing, the rows of every assembled grid
\* are labelled with the anti-reflection thicknesses of the results, one
\* row per result, in ascending numeric order.
C13_RowsAscending ==
  pc \in {"save", "done"} =>
    \A g \in DOMAIN grids :
      /\ Len(grids[g].index) = Len(calc.new_map_dict)
      /\ \A r \in 1..(Len(grids[g].index) - 1) : grids[g].index[r] <= grids[g].index[r + 1]
      /\ \A n \in DOMAIN calc.new_map_dict :
           \E r \in DOMAIN grids[g].index : grids[g].index[r] = ArOf(calc.new_map_dict[n].key)

\* C13 happens: the listing names a 15 nm file first, the results were
\* stored with the 15 nm key first, and the rows are 5 and 15
C13_Witness ==
  /\ pc = "done"
  /\ Len(calc.new_map_dict) = 2
  /\ ArOf(folder.listing[1]) = 15
  /\ ArOf(calc.new_map_dict[1].key) = 15
  /\ \A g \in DOMAIN grids : grids[g].index = <<5, 15>>

\* the value columns the two files of the zipped pair at position j hold
ColumnsAt(j) ==
  Len(ReadCsv(loader.metallic_spectra[j]).data) +
  Len(ReadCsv(loader.semiconductive_spectra[j]).data)

\* the columns of the first i zipped pairs
RECURSIVE ColumnsUpTo(_)
ColumnsUpTo(i) == IF i = 0 THEN 0 ELSE ColumnsUpTo(i - 1) + ColumnsAt(i)

\* the two files of the zipped pair at position j hold the same columns
SameColumns(j) ==
  ReadCsv(loader.metallic_spectra[j]).columns =
    ReadCsv(loader.semiconductive_spectra[j]).columns

\* C19 as the specification states it: nothing is resampled before the
\* count check, the naming check of every pair and the column validation of
\* every pair have passed, and no metric is computed before every pair was
\* resampled.
C19_StageOrder ==
  /\ loader.resampled > 0 =>
       /\ ~CountsDiffer
       /\ \A j \in 1..Zipped : ~Mismatched(j)
       /\ \A j \in 1..Zipped : SameColumns(j)
  /\ calc.new_map_dict # <<>> => loader.i = Zipped

\* C19 amended: the count check precedes all resampling; the pairs are
\* taken in turn, each one name-checked and then resampled at once, so a
\* naming error finds the pairs before it resampled and nothing of the
\* pair it names; the column validation of a pair comes after every pair
\* was resampled, with the metrics of that pair; no metric is computed
\* before every pair was resampled and no grid is assembled before every
\* loaded pair was computed.
C19_StageOrderInTurn ==
  /\ loader.resampled > 0 => ~CountsDiffer
  /\ error \in {Returned, "NameError"} => loader.resampled = ColumnsUpTo(loader.i)
  /\ error = "NameError" => Mismatched(loader.i + 1)
  /\ error = "FileExistsError" =>
       /\ loader.i = Zipped
       /\ loader.resampled = ColumnsUpTo(Zipped)
       /\ calc.k < Len(calc.keys)
  /\ (calc.map_dict # <<>> \/ calc.new_map_dict # <<>>) => loader.i = Zipped
  /\ \A n \in DOMAIN calc.new_map_dict :
       PairOf(calc.new_map_dict[n].key)[1].columns =
         PairOf(calc.new_map_dict[n].key)[2].columns
  /\ grids # <<>> => calc.k = Len(calc.keys)

\* C19 happens: the first pair was resampled, then the second pair failed
\* its naming check
C19_Witness ==
  /\ pc = "failed"
  /\ error = "NameError"
  /\ loader.i = 1
  /\ loader.resampled = ColumnsUpTo(1)
  /\ loader.resampled > 0

\* the labels of a result dictionary, in order
Labels(d) == [j \in DOMAIN d |-> d[j].key]

\* C20: the sweep holds one loaded entry and one result entry per zipped
\* pair, under keys that differ from pair to pair, and every result entry
\* holds one tlum triple, one tsol triple and one delta_t2500 value per
\* buffer column of its pair.
C20_OneResultPerPair ==
  /\ pc \in {"calc", "assemble", "save", "done"} => Len(calc.map_dict) = Zipped
  /\ pc \in {"assemble", "save", "done"} =>
       /\ Len(calc.new_map_dict) = Zipped
       /\ \A m, n \in DOMAIN calc.new_map_dict :
            m # n => calc.new_map_dict[m].key # calc.new_map_dict[n].key
       /\ \A n \in DOMAIN calc.new_map_dict :
            \A part \in 1..3 :
              Labels(calc.new_map_dict[n].value[part]) =
                Tail(PairOf(calc.new_map_dict[n].key)[1].columns)

\* the buffer-thickness labels a table reports, as a set
ColumnSet(table) == {table.columns[c] : c \in 2..Len(table.columns)}

\* the two tables read from the zipped pair at position j
FilesOf(j) ==
  <<ReadCsv(loader.metallic_spectra[j]), ReadCsv(loader.semiconductive_spectra[j])>>

\* C21: the validation of a pair raises the shape-mismatch error
\* (FileExistsError) whenever the two tables of the pair report different
\* sets of buffer-thickness columns, so no sweep gets past the calculation
\* with such a pair; it raises that error only for such a pair; and when
\* it raises, no metric of that pair is stored.
C21_ColumnValidation ==
  /\ \A n \in 1..calc.k :
       ColumnSet(DictGet(calc.map_dict, calc.keys[n]).value[1]) =
         ColumnSet(DictGet(calc.map_dict, calc.keys[n]).value[2])
  /\ pc \in {"assemble", "save", "done"} =>
       \A j \in 1..Zipped : ColumnSet(FilesOf(j)[1]) = ColumnSet(FilesOf(j)[2])
  /\ error = "FileExistsError" =>
       /\ ColumnSet(DictGet(calc.map_dict, calc.keys[calc.k + 1]).value[1]) #
            ColumnSet(DictGet(calc.map_dict, calc.keys[calc.k + 1]).value[2])
       /\ \A n \in DOMAIN calc.new_map_dict :
            calc.new_map_dict[n].key # Remove(calc.keys[calc.k + 1], <<"_", "m", "e">>)

\* the positions of the two sorted lists that hold a file
InMetallic(path) == {j \in DOMAIN loader.metallic_spectra : loader.metallic_spectra[j] = path}
InSemiconductive(path) ==
  {j \in DOMAIN loader.semiconductive_spectra : loader.semiconductive_spectra[j] = path}

\* C22: once the two lists are built, every listed file is in exactly one
\* of them, at one position; and when load_spectra returns, every listed
\* file is a member of exactly one zipped pair.
C22_Partition ==
  /\ pc # "start" =>
       \A f \in DOMAIN folder.listing :
         Cardinality(InMetallic(folder.listing[f])) +
           Cardinality(InSemiconductive(folder.listing[f])) = 1
  /\ pc \in {"calc", "assemble", "save", "done"} =>
       \A f \in DOMAIN folder.listing :
         Cardinality((InMetallic(folder.listing[f]) \cup InSemiconductive(folder.listing[f]))
                       \cap 1..Zipped) = 1

\* the ratio of one state as the specification defines it: numerator and
\* denominator both integrated by simpson over the table's own grid
\* restricted to the window
OwnRatio(table, label, weights, lo, hi) ==
  LET own == Window(table, lo, hi)
      numerator == simpson(Weighted(own.data[ColumnOf(own, label)], weights), own.wave)
      denominator == simpson(Weighted(Head(weights), Tail(weights)), own.wave)
  IN  IF numerator.raised # Returned \/ denominator.raised # Returned
      THEN <<"raised">>
      ELSE RDiv(numerator.value, denominator.value)

Tagged(tag) == {folder.listing[f] : f \in DOMAIN folder.listing} \cap
               {path \in {PathOf(st) : st \in Stems \cup NameStems} : Contains(path, tag)}

\* every metallic name has exactly one semiconducting name that equals it
\* once the tags are removed, and the other way round
Matched ==
  /\ \A m \in Tagged(ME) :
       Cardinality({c \in Tagged(SC) : Remove(m, ME) = Remove(c, SC)}) = 1
  /\ \A c \in Tagged(SC) :
       Cardinality({m \in Tagged(ME) : Remove(m, ME) = Remove(c, SC)}) = 1

\* C24: over a folder whose names are matched in that way, load_spectra
\* raises neither its count error nor its naming error, and every pair it
\* forms is a metallic file with its counterpart.
C24_Complete ==
  Matched =>
    /\ error \notin {"FileNotFoundError", "NameError"}
    /\ \A j \in 1..loader.i :
         Remove(loader.metallic_spectra[j], ME) = Remove(loader.semiconductive_spectra[j], SC)

\* C25: the two fields of the TransmittanceSpectrum are always equally
\* long, and a set_properties or interpolate call that raised has left the
\* object as it was before the call.
C25_FieldsInStep ==
  /\ Len(sample.wavelength) = Len(sample.transmittance)
  /\ (result.op \in {"set_properties", "interpolate"} /\ result.raised # Returned) =>
       sample = result.before[1]

\* the seven values a result entry holds for the buffer thickness label, in
\* the order of GridNames
MetricsOf(entry, label) ==
  DictGet(entry[1], label).value \o DictGet(entry[2], label).value \o
    <<DictGet(entry[3], label).value>>

\* C26: in every assembled grid, row r is the row of the r-th result in
\* sort order: its label is the sort key of that result, and each of its
\* cells holds that result's metric at the cell's buffer thickness, so no
\* row holds another pair's values and no cell is left without its value.
C26_CellsOfOwnPair ==
  pc \in {"save", "done"} =>
    \A g \in DOMAIN grids :
      /\ Len(grids[g].index) = Len(calc.new_map_dict)
      /\ \A r \in DOMAIN grids[g].index :
           LET file == SortedByKey(DictKeys(calc.new_map_dict))[r]
               entry == DictGet(calc.new_map_dict, file).value
           IN  /\ grids[g].index[r] = SortKey(file).value
               /\ grids[g].columns = Labels(entry[1])
               /\ \A c \in DOMAIN grids[g].columns :
                    grids[g].cells[c][r] = MetricsOf(entry, grids[g].columns[c])[g]

\* C27: when the single-spectrum calculate() returns, it has produced one
\* result row for every DataFrame load_spectra returned.
C27_OneRowPerPair ==
  pc = "done" => Len(calc.results) = Len(calc.spectra)

\* the 1 nm grid the semiconducting file of the zipped pair at position j
\* is interpolated on
ScGrid(j) == SingleInterp("current", SingleReadCsv(loader.semiconductive_spectra[j])).grid

\* C28: in every DataFrame the single-spectrum loader builds, the
\* semiconducting value of each row was interpolated at the wavelength of
\* that row: the wavelength column is the grid the semiconducting file was
\* interpolated on.
C28_SameWavelength ==
  \A j \in DOMAIN loader.spectra : loader.spectra[j].frame.wave = ScGrid(j)

====
